---- MODULE Spec2Model ----
(***************************************************************************)
(* A model of lg (src/main.rs): the parser of .git/config files            *)
(* (parse_git_config, try_get_git_config_remotes) and the directory walk   *)
(* (find_git_configs).                                                     *)
(*                                                                         *)
(* Text is modelled character by character: a line is a sequence of        *)
(* one-character strings, and trim, starts_with, ends_with, slicing and    *)
(* replace are computed on it as the standard library computes them.       *)
(*                                                                         *)
(* ParseSpec runs try_get_git_config_remotes on one directory, one line    *)
(* of the file per step.  Spec runs find_git_configs on a directory tree.  *)
(***************************************************************************)
EXTENDS Naturals, Sequences, FiniteSets, TLC

VARIABLES
    cfg,             \* what is at <path>/.git/config for the directory parsed
    pc,              \* position in try_get_git_config_remotes / parse_git_config
    idx,             \* number of lines of the file consumed by the loop
    remotes,         \* parse_git_config: `remotes`
    current_remote,  \* parse_git_config: `current_remote`
    ret,             \* value returned by try_get_git_config_remotes
    fs,              \* the directory tree below the search root
    recurse,         \* find_git_configs: `recurse` (cli.tree)
    result           \* value returned by find_git_configs

vars == <<cfg, pc, idx, remotes, current_remote, ret, fs, recurse, result>>

parseVars == <<cfg, pc, idx, remotes, current_remote, ret>>
walkVars == <<fs, recurse, result>>

(***************************************************************************)
(* Bounds of the model.                                                    *)
(***************************************************************************)
MaxLines == 5
MaxDirs == 2
MaxDepth == 2
MaxFaults == 1

(***************************************************************************)
(* Option and Result values.                                               *)
(***************************************************************************)
None == [some |-> FALSE]
Some(v) == [some |-> TRUE, val |-> v]
Ok(v) == [ok |-> TRUE, val |-> v]
Err(e) == [ok |-> FALSE, err |-> e]

(***************************************************************************)
(* HashMap<String, String>.                                                *)
(***************************************************************************)
EmptyMap == [k \in {} |-> <<>>]

InsertKeepFirst(m, k, v) ==
    [x \in DOMAIN m \cup {k} |-> IF x \in DOMAIN m THEN m[x] ELSE v]

Insert(m, k, v) ==
    [x \in DOMAIN m \cup {k} |-> IF x = k THEN v ELSE m[x]]

(***************************************************************************)
(* Strings.                                                                *)
(***************************************************************************)
Quote == "\""
RemotePrefix == <<"[", "r", "e", "m", "o", "t", "e", " ">>
UrlPrefix == <<"u", "r", "l", " ", "=", " ">>
RemoteNameStart == 8

IsWhitespace(c) == c \in {" ", "\t"}

RECURSIVE TrimStart(_)
TrimStart(s) ==
    IF s # <<>> /\ IsWhitespace(Head(s)) THEN TrimStart(Tail(s)) ELSE s

RECURSIVE TrimEnd(_)
TrimEnd(s) ==
    IF s # <<>> /\ IsWhitespace(s[Len(s)])
    THEN TrimEnd(SubSeq(s, 1, Len(s) - 1))
    ELSE s

Trim(s) == TrimEnd(TrimStart(s))

StartsWith(s, p) == Len(s) >= Len(p) /\ SubSeq(s, 1, Len(p)) = p

EndsWith(s, p) == Len(s) >= Len(p) /\ SubSeq(s, Len(s) - Len(p) + 1, Len(s)) = p

StripPrefixStr(s, p) ==
    IF StartsWith(s, p) THEN Some(SubSeq(s, Len(p) + 1, Len(s))) ELSE None

RemoveQuotes(s) == SelectSeq(s, LAMBDA c : c # Quote)

(***************************************************************************)
(* A line the reader cannot decode as UTF-8: BufRead::lines yields Err.    *)
(***************************************************************************)
BadUtf8 == <<"<invalid utf-8>">>

(***************************************************************************)
(* parse_git_config, the body of the loop for one decoded line.            *)
(* st is [remotes, current_remote].                                        *)
(***************************************************************************)
RemoteNameKeepQuotes(line) == SubSeq(line, RemoteNameStart + 1, Len(line) - 1)

RemoteName(line) ==
    RemoveQuotes(SubSeq(line, RemoteNameStart + 1, Len(line) - 1))

RecordUrlAlways(st, url) ==
    [st EXCEPT !.remotes =
        Insert(@, IF st.current_remote.some THEN st.current_remote.val ELSE <<>>,
               url)]

RecordUrl(st, url) ==
    IF st.current_remote.some
    THEN [st EXCEPT !.remotes = Insert(@, st.current_remote.val, url)]
    ELSE st

ParseLine(st, raw) ==
    LET line == Trim(raw)
        url == StripPrefixStr(line, UrlPrefix)
    IN  IF StartsWith(line, RemotePrefix) /\ EndsWith(line, <<"]">>)
        THEN [st EXCEPT !.current_remote = Some(RemoteName(line))]
        ELSE IF url.some THEN RecordUrl(st, url.val) ELSE st

ParseStart == [remotes |-> EmptyMap, current_remote |-> None]

RECURSIVE ParseLines(_, _)
ParseLines(st, lines) ==
    IF lines = <<>> THEN Ok(st.remotes)
    ELSE IF Head(lines) = BadUtf8
         THEN Err("Failed to read line from Git config")
         ELSE ParseLines(ParseLine(st, Head(lines)), Tail(lines))

(***************************************************************************)
(* What is at <dir>/.git/config.                                           *)
(*   absent: nothing there                                                 *)
(*   hidden: a file whose metadata cannot be read: .git can be listed but  *)
(*           not searched (mode r--)                                       *)
(*   locked: the same, and .git cannot be listed either (mode ---)         *)
(*   noopen: a regular file that File::open refuses                        *)
(*   file:   a regular file that opens, with its lines                     *)
(***************************************************************************)
Absent == [kind |-> "absent", lines |-> <<>>]
Hidden == [kind |-> "hidden", lines |-> <<>>]
Locked == [kind |-> "locked", lines |-> <<>>]
NoOpen == [kind |-> "noopen", lines |-> <<>>]
FileOf(lines) == [kind |-> "file", lines |-> lines]

\* Path::is_file: false when the metadata cannot be read.
IsFile(c) == c.kind \in {"noopen", "file"}

\* File::open
CanOpen(c) == c.kind = "file"

parse_git_config(c) ==
    IF ~CanOpen(c) THEN Err("Failed to open Git config file")
    ELSE ParseLines(ParseStart, c.lines)

(***************************************************************************)
(* The files of the model.                                                 *)
(***************************************************************************)
NameA == <<"a">>
NameB == <<"b">>
UrlX == <<"x">>
UrlY == <<"y">>

Header(name) == RemotePrefix \o <<Quote>> \o name \o <<Quote, "]">>
UrlLine(url) == UrlPrefix \o url

LineHeaderA == Header(NameA)
LineHeaderB == <<" ">> \o Header(NameB) \o <<" ">>
LineUrlX == <<"\t">> \o UrlLine(UrlX)
LineUrlY == UrlLine(UrlY)
LineCore == <<"[", "c", "o", "r", "e", "]">>
LineBlank == <<>>

GoodLines == {LineHeaderA, LineHeaderB, LineUrlX, LineUrlY, LineCore, LineBlank}

SeqsUpTo(S, n) == UNION {[1..k -> S] : k \in 0..n}

\* Readable files, and files whose last line cannot be decoded.
Files ==
    LET good == SeqsUpTo(GoodLines, MaxLines)
    IN  good \cup {Append(f, BadUtf8) : f \in SeqsUpTo(GoodLines, MaxLines - 1)}

Configs == {Absent, Hidden, Locked, NoOpen} \cup {FileOf(f) : f \in Files}

(***************************************************************************)
(* ParseSpec: try_get_git_config_remotes on one directory.                 *)
(***************************************************************************)
WalkIdle ==
    /\ fs = <<>>
    /\ recurse = FALSE
    /\ result = None

ParseInit ==
    /\ cfg \in Configs
    /\ pc = "start"
    /\ idx = 0
    /\ remotes = EmptyMap
    /\ current_remote = None
    /\ ret = None
    /\ WalkIdle

\* lines 68-69, 74-76 and 44-49: the is_file test and File::open.
TryGet ==
    /\ pc = "start"
    /\ IF ~IsFile(cfg)
       THEN /\ ret' = Some(Ok(None))
            /\ pc' = "done"
       ELSE IF ~CanOpen(cfg)
            THEN /\ ret' = Some(Err("Error parsing"))
                 /\ pc' = "done"
            ELSE /\ ret' = ret
                 /\ pc' = "lines"
    /\ UNCHANGED <<cfg, idx, remotes, current_remote, walkVars>>

\* lines 51-63: one iteration of the loop.
ReadLine ==
    /\ pc = "lines"
    /\ idx < Len(cfg.lines)
    /\ idx' = idx + 1
    /\ IF cfg.lines[idx + 1] = BadUtf8
       THEN /\ ret' = Some(Err("Error parsing"))
            /\ pc' = "done"
            /\ UNCHANGED <<remotes, current_remote>>
       ELSE LET st == ParseLine([remotes |-> remotes,
                                 current_remote |-> current_remote],
                                cfg.lines[idx + 1])
            IN  /\ remotes' = st.remotes
                /\ current_remote' = st.current_remote
                /\ UNCHANGED <<ret, pc>>
    /\ UNCHANGED <<cfg, walkVars>>

\* lines 64 and 71: the end of the file.
Finish ==
    /\ pc = "lines"
    /\ idx = Len(cfg.lines)
    /\ ret' = Some(Ok(Some(remotes)))
    /\ pc' = "done"
    /\ UNCHANGED <<cfg, idx, remotes, current_remote, walkVars>>

ParseNext == TryGet \/ ReadLine \/ Finish

ParseSpec == ParseInit /\ [][ParseNext]_vars

(***************************************************************************)
(* The directory tree.  A path is a sequence of components.  fs maps the   *)
(* path of each directory, relative to the search root, to                 *)
(*   cfg:      what is at <dir>/.git/config                                *)
(*   readable: whether fs::read_dir(<dir>) succeeds                        *)
(*   entries:  the names of its subdirectories, in enumeration order       *)
(* A directory whose cfg is not absent also holds the directory .git,      *)
(* which holds the entry config and nothing else.                          *)
(***************************************************************************)
SearchRoot == <<"srv", "repos">>
DirNames == {"a", "b"}
GitName == ".git"

FileEmpty == <<>>
FileOriginX == <<LineHeaderA, LineUrlX>>
FileOriginY == <<LineBlank, LineHeaderA, LineUrlY>>
FileBad == <<LineHeaderA, BadUtf8>>

GoodConfigs == {Absent, FileOf(FileEmpty), FileOf(FileOriginX), FileOf(FileOriginY)}

\* What can be wrong with a directory: the metadata of its config cannot be
\* read, its config does not open, its config holds a line that does not
\* decode, or the directory cannot be enumerated.
FaultKinds == {"hidden", "locked", "noopen", "undecodable", "unreadable"}

RECURSIVE DirSets(_)
DirSets(n) ==
    IF n = 0 THEN {{<<>>}}
    ELSE LET prev == DirSets(n - 1)
         IN  prev \cup
             UNION {{S \cup {Append(p, name)} :
                        p \in {q \in S : Len(q) < MaxDepth}, name \in DirNames} :
                    S \in prev}

SubdirNames(S, p) == {name \in DirNames : Append(p, name) \in S}

Orders(N) == {o \in [1..Cardinality(N) -> N] : \A i, j \in DOMAIN o : i # j => o[i] # o[j]}

RECURSIVE FaultSets(_, _)
FaultSets(S, n) ==
    IF n = 0 THEN {{}}
    ELSE LET prev == FaultSets(S, n - 1)
         IN  prev \cup
             UNION {{F \cup {<<p, k>>} : p \in S, k \in FaultKinds} : F \in prev}

WithFaults(good, order, F) ==
    [p \in DOMAIN good |->
        [cfg |-> IF <<p, "hidden">> \in F THEN Hidden
                 ELSE IF <<p, "locked">> \in F THEN Locked
                 ELSE IF <<p, "noopen">> \in F THEN NoOpen
                 ELSE IF <<p, "undecodable">> \in F THEN FileOf(FileBad)
                 ELSE good[p],
         readable |-> <<p, "unreadable">> \notin F,
         entries |-> order[p]]]

OrdersOver(S) ==
    {o \in [S -> UNION {Orders(N) : N \in SUBSET DirNames}] :
        \A p \in S : o[p] \in Orders(SubdirNames(S, p))}

\* The path of dir relative to the search root.
Rel(dir) == SubSeq(dir, Len(SearchRoot) + 1, Len(dir))

IsGitDir(dir) == Rel(dir) # <<>> /\ dir[Len(dir)] = GitName

\* line 68: what path.join(".git").join("config") names.
GitConfigOf(path) ==
    IF Rel(path) \in DOMAIN fs THEN fs[Rel(path)].cfg ELSE Absent

\* lines 67-77
try_get_git_config_remotes(path) ==
    LET git_config == GitConfigOf(path)
    IN  IF IsFile(git_config)
        THEN LET parsed == parse_git_config(git_config)
             IN  IF parsed.ok THEN Ok(Some(parsed.val))
                 ELSE Err("Error parsing")
        ELSE Ok(None)

\* line 91: fs::read_dir(dir), each entry with what Path::is_dir says of it.
ReadDir(dir) ==
    IF IsGitDir(dir)
    THEN IF GitConfigOf(SubSeq(dir, 1, Len(dir) - 1)).kind = "locked"
         THEN Err("Failed to read directory")
         ELSE Ok(<<[name |-> "config", is_dir |-> FALSE]>>)
    ELSE LET d == fs[Rel(dir)]
             git == IF d.cfg.kind = "absent" THEN <<>>
                    ELSE <<[name |-> GitName, is_dir |-> TRUE]>>
         IN  IF ~d.readable THEN Err("Failed to read directory")
             ELSE Ok(git \o [i \in 1..Len(d.entries) |->
                                [name |-> d.entries[i], is_dir |-> TRUE]])

\* Path::strip_prefix
StripPrefix(path, base) ==
    IF StartsWith(path, base)
    THEN Ok(SubSeq(path, Len(base) + 1, Len(path)))
    ELSE Err("prefix not found")

(***************************************************************************)
(* find_git_configs                                                        *)
(***************************************************************************)
RECURSIVE find_git_configs(_, _)

\* line 98
HasContentAlways(child_dir) == TRUE

HasContentRemotesOnly(child_dir) == DOMAIN child_dir.remotes # {}

HasContent(child_dir) ==
    child_dir.children # <<>> \/ DOMAIN child_dir.remotes # {}

\* lines 100 and 107
NodePathAbsolute(path, dir) == Ok(path)

NodePath(path, dir) == StripPrefix(path, dir)

\* lines 99-103 and 106-111
PushChild(current_dir, rel, child_remotes, child_children) ==
    IF ~rel.ok THEN rel
    ELSE Ok([current_dir EXCEPT !.children =
                Append(@, [path |-> rel.val,
                           remotes |-> child_remotes,
                           children |-> child_children])])

\* lines 97-104
VisitRecursiveSkipErrors(current_dir, dir, path) ==
    LET child_dir == find_git_configs(path, TRUE)
    IN  IF ~child_dir.ok THEN Ok(current_dir)
        ELSE IF HasContent(child_dir.val)
             THEN PushChild(current_dir, NodePath(path, dir),
                            child_dir.val.remotes, child_dir.val.children)
             ELSE Ok(current_dir)

VisitRecursive(current_dir, dir, path) ==
    LET child_dir == find_git_configs(path, TRUE)
    IN  IF ~child_dir.ok THEN child_dir
        ELSE IF HasContent(child_dir.val)
             THEN PushChild(current_dir, NodePath(path, dir),
                            child_dir.val.remotes, child_dir.val.children)
             ELSE Ok(current_dir)

\* lines 105-112
VisitDirectAlways(current_dir, dir, path) ==
    LET got == try_get_git_config_remotes(path)
    IN  IF ~got.ok THEN got
        ELSE PushChild(current_dir, NodePath(path, dir),
                       IF got.val.some THEN got.val.val ELSE EmptyMap, <<>>)

VisitDirect(current_dir, dir, path) ==
    LET got == try_get_git_config_remotes(path)
    IN  IF ~got.ok THEN got
        ELSE IF got.val.some
             THEN PushChild(current_dir, NodePath(path, dir), got.val.val, <<>>)
             ELSE Ok(current_dir)

\* lines 92-113: the body of the loop for one entry.
VisitEntryAlwaysRecursive(current_dir, dir, entry, rec) ==
    IF ~entry.is_dir THEN Ok(current_dir)
    ELSE VisitRecursive(current_dir, dir, Append(dir, entry.name))

VisitEntry(current_dir, dir, entry, rec) ==
    IF ~entry.is_dir THEN Ok(current_dir)
    ELSE IF rec
         THEN VisitRecursive(current_dir, dir, Append(dir, entry.name))
         ELSE VisitDirect(current_dir, dir, Append(dir, entry.name))

\* lines 91-114: the loop; the first error ends it.
RECURSIVE VisitEntries(_, _, _, _)
VisitEntries(current_dir, dir, entries, rec) ==
    IF entries = <<>> THEN Ok(current_dir)
    ELSE LET next == VisitEntry(current_dir, dir, Head(entries), rec)
         IN  IF ~next.ok THEN next
             ELSE VisitEntries(next.val, dir, Tail(entries), rec)

\* lines 82-117
find_git_configs(dir, rec) ==
    LET got == try_get_git_config_remotes(dir)
    IN  IF ~got.ok THEN got
        ELSE LET current_dir ==
                     [path |-> dir,
                      remotes |-> IF got.val.some THEN got.val.val ELSE EmptyMap,
                      children |-> <<>>]
                 listing == ReadDir(dir)
             IN  IF ~listing.ok THEN listing
                 ELSE VisitEntries(current_dir, dir, listing.val, rec)

(***************************************************************************)
(* Spec: find_git_configs on a directory tree.                             *)
(***************************************************************************)
ParseIdle ==
    /\ cfg = Absent
    /\ pc = "idle"
    /\ idx = 0
    /\ remotes = EmptyMap
    /\ current_remote = None
    /\ ret = None

Init ==
    /\ \E S \in DirSets(MaxDirs) :
           \E good \in [S -> GoodConfigs], order \in OrdersOver(S),
              F \in FaultSets(S, MaxFaults) :
               fs = WithFaults(good, order, F)
    /\ recurse \in BOOLEAN
    /\ result = None
    /\ ParseIdle

\* lines 155-156: main calls find_git_configs(&search_dir, cli.tree).
Walk ==
    /\ result = None
    /\ result' = Some(find_git_configs(SearchRoot, recurse))
    /\ UNCHANGED <<fs, recurse, parseVars>>

Next == Walk

Spec == Init /\ [][Next]_vars

(***************************************************************************)
(* The lines of the file by their form, as the file was written.           *)
(***************************************************************************)
HeaderLines == {LineHeaderA, LineHeaderB}
UrlLines == {LineUrlX, LineUrlY}
IgnoredLines == {LineCore, LineBlank}

HeaderNameOf(l) == IF l = LineHeaderA THEN NameA ELSE NameB
UrlValueOf(l) == IF l = LineUrlX THEN UrlX ELSE UrlY

Readable(c) == c.kind = "file" /\ \A i \in 1..Len(c.lines) : c.lines[i] # BadUtf8

HeadersIn(lines, n) == {i \in 1..n : lines[i] \in HeaderLines}
UrlsIn(lines, n) == {i \in 1..n : lines[i] \in UrlLines}

SetMax(S) == CHOOSE m \in S : \A x \in S : x <= m

\* The header of the section that line i lies in; 0 before the first header.
SectionOf(lines, i) ==
    LET before == {h \in HeadersIn(lines, Len(lines)) : h < i}
    IN  IF before = {} THEN 0 ELSE SetMax(before)

\* The url lines among the first n lines that lie in a section named name.
RecordedFor(lines, n, name) ==
    {u \in UrlsIn(lines, n) :
        /\ SectionOf(lines, u) # 0
        /\ HeaderNameOf(lines[SectionOf(lines, u)]) = name}

NamesBefore(lines, n) == {HeaderNameOf(lines[h]) : h \in HeadersIn(lines, n)}

Returned == pc = "done" /\ ret.some /\ ret.val.ok /\ ret.val.val.some

(***************************************************************************)
(* C3: a file of N sections with pairwise distinct names, each a           *)
(* [remote "X"] header followed by exactly one url = Y line, with ignored  *)
(* lines anywhere between, parses to a mapping of exactly N entries that   *)
(* maps each X, without its quotes, to the Y of its own section.           *)
(***************************************************************************)
WellFormedSections(c) ==
    LET lines == c.lines
        hs == HeadersIn(lines, Len(lines))
        us == UrlsIn(lines, Len(lines))
    IN  /\ Readable(c)
        /\ \A u \in us : SectionOf(lines, u) # 0
        /\ \A h \in hs : Cardinality({u \in us : SectionOf(lines, u) = h}) = 1
        /\ \A h1, h2 \in hs :
               h1 # h2 => HeaderNameOf(lines[h1]) # HeaderNameOf(lines[h2])

SectionUrl(lines, h) ==
    UrlValueOf(lines[CHOOSE u \in UrlsIn(lines, Len(lines)) :
                        SectionOf(lines, u) = h])

ExpectedMap(lines) ==
    LET hs == HeadersIn(lines, Len(lines))
    IN  [name \in {HeaderNameOf(lines[h]) : h \in hs} |->
            SectionUrl(lines, CHOOSE h \in hs : HeaderNameOf(lines[h]) = name)]

\* C3: such a file parses to exactly the mapping of its N sections.
C3_DistinctSections ==
    (pc = "done" /\ WellFormedSections(cfg)) =>
        /\ Returned
        /\ ret.val.val.val = ExpectedMap(cfg.lines)
        /\ Cardinality(DOMAIN ret.val.val.val)
               = Cardinality(HeadersIn(cfg.lines, Len(cfg.lines)))

C3_Witness ==
    /\ pc = "done"
    /\ WellFormedSections(cfg)
    /\ Cardinality(HeadersIn(cfg.lines, Len(cfg.lines))) = 2
    /\ \E i \in 1..Len(cfg.lines) :
           /\ cfg.lines[i] \in IgnoredLines
           /\ SectionOf(cfg.lines, i) # 0
           /\ \E u \in UrlsIn(cfg.lines, Len(cfg.lines)) :
                  u > i /\ SectionOf(cfg.lines, u) = SectionOf(cfg.lines, i)
    /\ Returned
    /\ ret.val.val.val = (NameA :> UrlX @@ NameB :> UrlY)

(***************************************************************************)
(* C4: when several url lines are recorded for one remote name, in one     *)
(* section or in several sections of that name, the mapping holds the url  *)
(* of the last of them in file order, and the names of the mapping are     *)
(* exactly the names some url line was recorded for.                       *)
(***************************************************************************)
C4_LastWriteWins ==
    pc \in {"lines", "done"} =>
        /\ DOMAIN remotes =
               {name \in {NameA, NameB} : RecordedFor(cfg.lines, idx, name) # {}}
        /\ \A name \in DOMAIN remotes :
               remotes[name] =
                   UrlValueOf(cfg.lines[SetMax(RecordedFor(cfg.lines, idx, name))])

C4_Witness ==
    /\ Returned
    /\ \E name \in DOMAIN ret.val.val.val :
           LET recs == RecordedFor(cfg.lines, Len(cfg.lines), name)
           IN  /\ Cardinality(recs) >= 2
               /\ \E u \in recs :
                      UrlValueOf(cfg.lines[u]) # UrlValueOf(cfg.lines[SetMax(recs)])
               /\ ret.val.val.val[name] = UrlValueOf(cfg.lines[SetMax(recs)])

(***************************************************************************)
(* C5: try_get_git_config_remotes has three outcomes: None when there is   *)
(* no file at .git/config, Some of the empty mapping when the file is      *)
(* readable and has no remote section, and an error, never None and never  *)
(* an empty mapping, when the file exists and cannot be opened or read.    *)
(***************************************************************************)
ExistsUnreadable(c) ==
    \/ c.kind \in {"hidden", "locked", "noopen"}
    \/ c.kind = "file" /\ ~Readable(c)

\* C5: None for no file, Some of the empty mapping for a readable file without
\* remote sections, an error for a file that exists and cannot be read.
C5_ThreeOutcomes ==
    pc = "done" =>
        /\ cfg.kind = "absent" => ret = Some(Ok(None))
        /\ (Readable(cfg) /\ HeadersIn(cfg.lines, Len(cfg.lines)) = {})
               => ret = Some(Ok(Some(EmptyMap)))
        /\ ExistsUnreadable(cfg) => ~ret.val.ok

(***************************************************************************)
(* C9: while the file is read, current_remote is None until the first      *)
(* [remote ...] line and only such a line changes it; a url line read      *)
(* while it is None leaves the mapping unchanged; any other line changes   *)
(* neither; so every name of the mapping was set by an earlier header.     *)
(***************************************************************************)
C9_StateInv ==
    /\ HeadersIn(cfg.lines, idx) = {} => current_remote = None
    /\ DOMAIN remotes \subseteq NamesBefore(cfg.lines, idx)

C9_Step ==
    idx' = idx + 1 =>
        LET l == cfg.lines[idx']
        IN  /\ current_remote' # current_remote => l \in HeaderLines
            /\ l \in HeaderLines => current_remote' = Some(HeaderNameOf(l))
            /\ (l \in UrlLines /\ current_remote = None) => remotes' = remotes
            /\ l \notin (HeaderLines \cup UrlLines) =>
                   /\ remotes' = remotes
                   /\ current_remote' = current_remote

\* C9: the state invariant at every line, and the step rule for every line.
C9_ParserState == [](C9_StateInv) /\ [][C9_Step]_vars

C9_Witness ==
    /\ Returned
    /\ Len(cfg.lines) >= 4
    /\ cfg.lines[1] \in UrlLines
    /\ cfg.lines[2] = LineCore
    /\ cfg.lines[3] \in HeaderLines
    /\ cfg.lines[4] \in UrlLines
    /\ Cardinality(DOMAIN ret.val.val.val) = 1

(***************************************************************************)
(* The tree returned, as the sequence of its nodes in depth-first order,   *)
(* each with the directory that joining the paths from the root gives.     *)
(***************************************************************************)
RECURSIVE Flatten(_, _)
RECURSIVE FlattenChildren(_, _)
Flatten(node, disk) ==
    <<[disk |-> disk, node |-> node]>> \o FlattenChildren(node.children, disk)

FlattenChildren(children, parent) ==
    IF children = <<>> THEN <<>>
    ELSE Flatten(Head(children), parent \o Head(children).path)
             \o FlattenChildren(Tail(children), parent)

Walked == result.some
WalkedOk == result.some /\ result.val.ok
Tree == result.val.val
TreeNodes == Flatten(Tree, Tree.path)
NonRootNodes == Tail(TreeNodes)
NodesAt(disk) == {i \in 1..Len(TreeNodes) : TreeNodes[i].disk = disk}

\* The mapping a config file of the model declares, read off the file.
Declared(c) ==
    IF c = FileOf(FileOriginX) THEN NameA :> UrlX
    ELSE IF c = FileOf(FileOriginY) THEN NameA :> UrlY
    ELSE EmptyMap

IsPrefix(p, q) == Len(p) <= Len(q) /\ SubSeq(q, 1, Len(p)) = p

\* No directory at or below p has a .git/config.
NoConfigBeneath(p) ==
    \A q \in DOMAIN fs : IsPrefix(p, q) => fs[q].cfg.kind = "absent"

\* The subdirectories on disk, the .git directories included.
Subdirs ==
    (DOMAIN fs \ {<<>>})
        \cup {Append(q, GitName) : q \in {r \in DOMAIN fs : fs[r].cfg.kind # "absent"}}

ShallowDirs == {p \in DOMAIN fs : Len(p) <= 1}

ConfigFails(p) ==
    fs[p].cfg.kind = "noopen" \/ (fs[p].cfg.kind = "file" /\ ~Readable(fs[p].cfg))

\* Some directory the walk enumerates cannot be enumerated, or some
\* .git/config the walk parses cannot be parsed.
FailureVisited ==
    IF recurse
    THEN \E p \in DOMAIN fs :
             ~fs[p].readable \/ ConfigFails(p) \/ fs[p].cfg.kind = "locked"
    ELSE \/ ~fs[<<>>].readable
         \/ \E p \in ShallowDirs : ConfigFails(p)

(***************************************************************************)
(* C1: in recursive mode a subdirectory with no .git/config in itself or   *)
(* in any descendant is no node of the tree returned; when no directory    *)
(* at all has one, the tree is the root alone, without remotes or children.*)
(***************************************************************************)
C1_Pruning ==
    (WalkedOk /\ recurse) =>
        /\ \A p \in Subdirs :
               NoConfigBeneath(p) => NodesAt(SearchRoot \o p) = {}
        /\ NoConfigBeneath(<<>>) =>
               Tree = [path |-> SearchRoot, remotes |-> EmptyMap, children |-> <<>>]

C1_Witness ==
    /\ WalkedOk /\ recurse
    /\ \E p \in DOMAIN fs :
           /\ Len(p) = 2
           /\ NoConfigBeneath(SubSeq(p, 1, 1))
           /\ NodesAt(SearchRoot \o p) = {}
           /\ NodesAt(SearchRoot \o SubSeq(p, 1, 1)) = {}
    /\ DOMAIN Tree.remotes # {}

(***************************************************************************)
(* C2: in the tree returned, in either mode, no node other than the root   *)
(* has both an empty remotes mapping and an empty children sequence.       *)
(***************************************************************************)
C2_NoEmptyChild ==
    WalkedOk =>
        \A i \in 1..Len(NonRootNodes) :
            \/ DOMAIN NonRootNodes[i].node.remotes # {}
            \/ NonRootNodes[i].node.children # <<>>

\* C2 as amended: a node other than the root with neither remotes nor children
\* occurs only in non-recursive mode, as the child for a direct subdirectory
\* whose .git/config is a readable file that records no remote.
C2_EmptyChildOnlyForEmptyConfig ==
    WalkedOk =>
        \A i \in 1..Len(NonRootNodes) :
            LET e == NonRootNodes[i]
            IN  (DOMAIN e.node.remotes = {} /\ e.node.children = <<>>) =>
                    /\ ~recurse
                    /\ IsPrefix(SearchRoot, e.disk)
                    /\ Rel(e.disk) \in ShallowDirs
                    /\ Readable(fs[Rel(e.disk)].cfg)
                    /\ HeadersIn(fs[Rel(e.disk)].cfg.lines,
                                 Len(fs[Rel(e.disk)].cfg.lines)) = {}

C2_Witness ==
    /\ WalkedOk /\ ~recurse
    /\ Len(Tree.children) = 2
    /\ Tree.children[1] = [path |-> <<"b">>, remotes |-> EmptyMap, children |-> <<>>]
    /\ Tree.children[2].remotes = (NameA :> UrlY)
    /\ fs[<<"b">>].cfg = FileOf(FileEmpty)

(***************************************************************************)
(* C6: in non-recursive mode only the config files of the root and of its  *)
(* direct subdirectories are read: nothing that is wrong deeper makes the  *)
(* walk fail, every child of the root has no children, and a remote that   *)
(* only a directory two or more levels below the root declares is nowhere  *)
(* in the tree returned.                                                   *)
(***************************************************************************)
C6_NonRecursiveDepth ==
    (Walked /\ ~recurse) =>
        /\ ~FailureVisited => result.val.ok
        /\ result.val.ok =>
               /\ \A i \in 1..Len(Tree.children) : Tree.children[i].children = <<>>
               /\ \A i \in 1..Len(TreeNodes) :
                      \A name \in DOMAIN TreeNodes[i].node.remotes :
                          \E p \in ShallowDirs :
                              /\ name \in DOMAIN Declared(fs[p].cfg)
                              /\ Declared(fs[p].cfg)[name]
                                     = TreeNodes[i].node.remotes[name]

C6_Witness ==
    /\ WalkedOk /\ ~recurse
    /\ \E p \in DOMAIN fs :
           /\ Len(p) = 2
           /\ fs[p].cfg = FileOf(FileOriginY)
           /\ fs[SubSeq(p, 1, 1)].cfg = FileOf(FileOriginX)
    /\ Len(Tree.children) = 1
    /\ Tree.children[1].remotes = (NameA :> UrlX)

(***************************************************************************)
(* C7: the path of the root node is the search path as given; the path of  *)
(* any other node is the one name of its subdirectory, relative to its     *)
(* parent node, so that joining the paths from the root down to a node     *)
(* gives the directory the node was read from.                             *)
(***************************************************************************)
C7_RelativePaths ==
    WalkedOk =>
        /\ Tree.path = SearchRoot
        /\ \A i \in 1..Len(NonRootNodes) :
               LET e == NonRootNodes[i]
               IN  /\ Len(e.node.path) = 1
                   /\ e.node.path[1] \in DirNames
                   /\ IsPrefix(SearchRoot, e.disk)
                   /\ Rel(e.disk) \in DOMAIN fs
                   /\ e.node.remotes = Declared(fs[Rel(e.disk)].cfg)

C7_Witness ==
    /\ WalkedOk /\ recurse
    /\ Len(Tree.children) = 1
    /\ Len(Tree.children[1].children) = 1
    /\ Tree.children[1].path = <<"a">>
    /\ Tree.children[1].children[1].path = <<"b">>
    /\ Tree.children[1].remotes = (NameA :> UrlX)
    /\ Tree.children[1].children[1].remotes = (NameA :> UrlY)

(***************************************************************************)
(* C8: when enumerating a visited directory fails, or parsing the          *)
(* .git/config of a visited directory fails, find_git_configs returns an   *)
(* error and no tree, at whatever depth the failure is.                    *)
(***************************************************************************)
C8_ErrorsAbort ==
    (Walked /\ FailureVisited) =>
        /\ ~result.val.ok
        /\ DOMAIN result.val = {"ok", "err"}

C8_Witness ==
    /\ Walked /\ recurse
    /\ \E p \in DOMAIN fs : Len(p) = 2 /\ ConfigFails(p)
    /\ DOMAIN Declared(fs[<<>>].cfg) # {}
    /\ ~result.val.ok

(***************************************************************************)
(* C10: in recursive mode, when the walk succeeds, every directory below   *)
(* the root whose .git/config yields a remote is exactly one node of the   *)
(* tree, under the nodes of all its ancestor directories, with the         *)
(* mapping of its own config.                                              *)
(***************************************************************************)
C10_EveryRepoOnce ==
    (WalkedOk /\ recurse) =>
        \A p \in DOMAIN fs \ {<<>>} :
            DOMAIN Declared(fs[p].cfg) # {} =>
                /\ Cardinality(NodesAt(SearchRoot \o p)) = 1
                /\ \A i \in NodesAt(SearchRoot \o p) :
                       TreeNodes[i].node.remotes = Declared(fs[p].cfg)
                /\ \A n \in 1..Len(p) :
                       NodesAt(SearchRoot \o SubSeq(p, 1, n)) # {}

C10_Witness ==
    /\ WalkedOk /\ recurse
    /\ \E p \in DOMAIN fs :
           /\ Len(p) = 2
           /\ fs[p].cfg = FileOf(FileOriginY)
           /\ fs[SubSeq(p, 1, 1)].cfg = Absent
           /\ Cardinality(NodesAt(SearchRoot \o p)) = 1
           /\ Cardinality(NodesAt(SearchRoot \o SubSeq(p, 1, 1))) = 1

====
